---- MODULE Spec2Model ----
(***************************************************************************)
(* Model of the websocket message dispatcher (package ws) and of the      *)
(* error-code model (package errorx) of vesoft-inc/go-pkg.                 *)
(*                                                                         *)
(* Spec          : the dispatcher.  One dispatch task (goroutine) per      *)
(*                 inbound payload, the shared handler registry, and the   *)
(*                 session's write operation.                              *)
(* SpecCombiner  : the default code combiner (codeCombiner323) applied to  *)
(*                 triples drawn from bounded sets.                        *)
(***************************************************************************)
EXTENDS Integers, Sequences, FiniteSets, TLC

(* ------------------------------ bounds --------------------------------- *)

\* number of dispatch tasks (inbound payloads) in one behaviour
NumTasks == 1

\* number of RegisterMessageHandler calls in one behaviour
MaxRegs == 2

\* largest offset added to the boundary values of the combiner's inputs
MaxDelta == 1

\* number of payloads whose dispatch goroutines run side by side
NumConcurrent == 2

\* number of dispatch tasks that call WithValue on one session
NumCallers == 2

\* number of WithCode calls that build one error
MaxWraps == 2

Tasks == 1..NumTasks

(* ------------------------ errorx: error codes -------------------------- *)

CCBadRequest == 400

CCNotFound == 404

CCInternalServer == 500

\* Go's integer division truncates toward zero
GoDiv(a, b) == IF a >= 0 THEN a \div b ELSE -((-a) \div b)

\* Go's remainder has the sign of the dividend
GoMod(a, b) == a - b * GoDiv(a, b)

Combine(categoryCode, platformCode, specificCode) ==
    categoryCode * 100000 + platformCode * 1000 + specificCode

\* a separation that forgets to cut the platform digits off the category
SeparateNoMod(code) ==
    << GoDiv(code, 100000), GoDiv(code, 1000), GoMod(code, 1000) >>

Separate(code) ==
    << GoDiv(code, 100000), GoMod(GoDiv(code, 1000), 100), GoMod(code, 1000) >>

\* An *ErrCode: id stands for the pointer (the handle's identity).
NewErrCode(id, categoryCode, platformCode, specificCode, message) ==
    [id |-> id,
     code |-> Combine(categoryCode, platformCode, specificCode),
     message |-> message]

NoCode == [id |-> "nil", code |-> 0, message |-> ""]

\* the fallback of getResp
ErrInternalServer == NewErrCode("internal", CCInternalServer, 0, 0, "ErrInternalServer")

\* codes declared by the callers (handlers and classifier)
ErrUserNotFound == NewErrCode("notfound", CCNotFound, 10, 1, "ErrUserNotFound")

ErrUserZero == NewErrCode("zero", 0, 0, 0, "ErrUserZero")

UserCodes == {ErrUserNotFound, ErrUserZero}

\* a second declaration with the packed integer of ErrUserNotFound
ErrUserTwin == NewErrCode("twin", CCNotFound, 10, 1, "ErrUserNotFound")

(* ------------------------ errorx: error values ------------------------- *)
(* An error is the sequence of the layers of its Unwrap chain, outermost   *)
(* first; the nil error is the empty sequence.                             *)
(*   fundamental : pkg/errors.New        (text, stack trace, no cause)     *)
(*   plain       : a standard error      (text, no stack trace, no cause)  *)
(*   withMessage : pkg/errors.WithMessage (text, cause)                    *)
(*   withStack   : pkg/errors.WithStack  (stack trace, cause)              *)
(*   codeError   : errorx.codeError      (ErrCode, cause or nil)           *)

NilErr == << >>

Layer(k, text, ec) == [k |-> k, text |-> text, ec |-> ec]

PkgNew(text) == << Layer("fundamental", text, NoCode) >>

PlainErr(text) == << Layer("plain", text, NoCode) >>

WithMessagef(err, text) ==
    IF err = NilErr THEN NilErr ELSE << Layer("withMessage", text, NoCode) >> \o err

WithStack(err) ==
    IF err = NilErr THEN NilErr ELSE << Layer("withStack", "", NoCode) >> \o err

hasStack(err) ==
    \E i \in 1..Len(err) : err[i].k \in {"fundamental", "withStack"}

\* a wrap that captures a stack trace whatever the cause carries
newCodeErrorAlwaysStack(c, err) ==
    WithStack(<< Layer("codeError", "", c) >> \o err)

newCodeErrorInternal(c, err) ==
    LET ce == << Layer("codeError", "", c) >> \o err
    IN  IF hasStack(err) THEN ce ELSE WithStack(ce)

\* the repository calls WithCode without a format string
WithCode(c, err) == newCodeErrorInternal(c, err)

\* WithCode with a format string: the code error under a message layer
WithCodeFormat(c, err, format) ==
    IF format = ""
    THEN newCodeErrorInternal(c, err)
    ELSE << Layer("withMessage", format, NoCode) >> \o newCodeErrorInternal(c, err)

IsCodeErr(err) == \E i \in 1..Len(err) : err[i].k = "codeError"

\* the codeError errors.As finds: the first one of the chain, with its cause
AsCodeError(err) ==
    LET i == CHOOSE j \in 1..Len(err) :
                 /\ err[j].k = "codeError"
                 /\ \A l \in 1..(j - 1) : err[l].k # "codeError"
    IN  SubSeq(err, i, Len(err))

\* a comparison of the packed integers instead of the handles
IsErrCodeByValue(c, ec) == c.code = ec.code

\* ErrCode.IsErrCode: c == ec on pointers
IsErrCode(c, ec) == c.id = ec.id

IsCodeError(err, codes) ==
    IF ~IsCodeErr(err) THEN FALSE
    ELSE CASE Len(codes) = 0 -> TRUE
           [] Len(codes) = 1 -> IsErrCode(AsCodeError(err)[1].ec, codes[1])
           [] OTHER -> FALSE

\* codeError.Error
CodeErrorText(ec) == ToString(ec.code) \o ": " \o ec.message

RECURSIVE ErrorText(_)
ErrorText(err) ==
    IF err = NilErr THEN ""
    ELSE LET l == Head(err)
         IN  CASE l.k = "codeError"   -> CodeErrorText(l.ec)
               [] l.k = "withMessage" -> l.text \o ": " \o ErrorText(Tail(err))
               [] l.k = "withStack"   -> ErrorText(Tail(err))
               [] OTHER               -> l.text

StackText == "\n<stack trace>"

\* fmt.Sprintf("%+v", err)
RECURSIVE FormatPlusV(_)
FormatPlusV(err) ==
    IF err = NilErr THEN ""
    ELSE LET l == Head(err)
         IN  CASE l.k = "codeError" ->
                    IF Tail(err) # NilErr
                    THEN FormatPlusV(Tail(err)) \o "\n" \o CodeErrorText(l.ec)
                    ELSE CodeErrorText(l.ec)
               [] l.k = "withMessage" -> FormatPlusV(Tail(err)) \o "\n" \o l.text
               [] l.k = "withStack"   -> FormatPlusV(Tail(err)) \o StackText
               [] l.k = "fundamental" -> l.text \o StackText
               [] OTHER               -> l.text

\* strings.Contains
Contains(s, sub) ==
    \E i \in 1..(Len(s) - Len(sub) + 1) : SubSeq(s, i, i + Len(sub) - 1) = sub

\* ws.ErrParam: the bad-parameter error of package ws
ErrParamCode == NewErrCode("param", CCBadRequest, 0, 0, "ErrParam")

ErrParam == WithCode(ErrParamCode, NilErr)

\* a priority that lets the last candidate win
TakeCodeLast(fns) ==
    IF \E i \in 1..Len(fns) : fns[i] # NoCode
    THEN fns[CHOOSE i \in 1..Len(fns) :
                 /\ fns[i] # NoCode
                 /\ \A j \in (i + 1)..Len(fns) : fns[j] = NoCode]
    ELSE NoCode

TakeCodePriority(fns) ==
    IF \E i \in 1..Len(fns) : fns[i] # NoCode
    THEN fns[CHOOSE i \in 1..Len(fns) :
                 /\ fns[i] # NoCode
                 /\ \A j \in 1..(i - 1) : fns[j] = NoCode]
    ELSE NoCode

(* ------------------------------ ws: header ----------------------------- *)
(* A header field value is a string, a value of another JSON type, or is   *)
(* absent.  poison records an entry json.Marshal cannot encode, which only *)
(* a handler can put into the map.                                         *)

Str(v) == [t |-> "str", v |-> v]

NotStr == [t |-> "num", v |-> ""]

Absent == [t |-> "none", v |-> ""]

NewHeader(version, action) == [version |-> version, action |-> action, poison |-> FALSE]

\* the zero value of tmpReq.Header
NilHeader == NewHeader(Absent, Absent)

GetString(val) == IF val.t = "str" THEN val.v ELSE ""

Version(h) == GetString(h.version)

Action(h) == GetString(h.action)

Key(h) ==
    IF Version(h) = "" THEN Action(h) ELSE Version(h) \o "/" \o Action(h)

(* ------------------------- ws: message handlers ------------------------ *)
(* reqType "struct" decodes only a JSON object; reqType "any" decodes any  *)
(* JSON value.                                                             *)

MessageHandler(name, header, reqType) ==
    [name |-> name, Header |-> header, reqType |-> reqType]

hEchoA == MessageHandler("echoA", NewHeader(Str("v1"), Str("a")), "struct")

hEchoB == MessageHandler("echoB", NewHeader(Str("v1"), Str("a")), "any")

hFlat == MessageHandler("flat", NewHeader(Absent, Str("v1/a")), "struct")

hMalformed == MessageHandler("malformed", NewHeader(NotStr, Absent), "struct")

Handlers == {hEchoA, hEchoB, hFlat, hMalformed}

NoHandler == MessageHandler("none", NilHeader, "none")

GetHeader(mh) == mh.Header

\* json.Unmarshal(msg, &tmpReq) of MessageHandler.Handle
DataDecodes(mh, msg) == mh.reqType = "any" \/ msg.data = "obj"

(* --------------------------- inbound payloads -------------------------- *)

MsgHeaders ==
    { NewHeader(Str("v1"), Str("a")),
      NewHeader(Absent, Str("v1/a")),
      NewHeader(Absent, Str("b")),
      NilHeader }

\* a payload that is not an envelope carries nothing else
BadEnvelope == [envOK |-> FALSE, header |-> NilHeader, data |-> "num"]

Msgs ==
    {BadEnvelope} \cup
    { [envOK |-> TRUE, header |-> h, data |-> d] : h \in MsgHeaders, d \in {"obj", "num"} }

NoMsg == [envOK |-> FALSE, header |-> NilHeader, data |-> "none"]

(* ------------------- what the caller-supplied code does ---------------- *)

\* results of a HandleFunc
HandleOutcomes ==
    { [kind |-> "data", data |-> "data", poison |-> FALSE, err |-> NilErr],
      [kind |-> "data", data |-> "chan", poison |-> FALSE, err |-> NilErr],
      [kind |-> "data", data |-> "chan", poison |-> TRUE, err |-> NilErr],
      [kind |-> "err", data |-> "nil", poison |-> FALSE, err |-> PlainErr("boom")],
      [kind |-> "panic", data |-> "nil", poison |-> FALSE, err |-> NilErr] } \cup
    { [kind |-> "err", data |-> "nil", poison |-> FALSE, err |-> WithCode(c, NilErr)] :
          c \in UserCodes }

\* results of fnGetErrCode: nil, a code, or a panic
ClassifierOutcomes ==
    { [panic |-> FALSE, ec |-> NoCode], [panic |-> TRUE, ec |-> NoCode] } \cup
    { [panic |-> FALSE, ec |-> c] : c \in UserCodes }

ClassifierUnused == [panic |-> FALSE, ec |-> NoCode]

(* ------------------------------- state --------------------------------- *)

HandlerDetailsNone == 0

HandlerDetailsNormal == 1

HandlerDetailsWithError == 2

HandlerDetailsFull == 3

VARIABLES
    detailsType,        \* defaultHandler.detailsType
    fnGetErrCode,       \* TRUE iff defaultHandler.fnGetErrCode is set
    fnContextErrorf,    \* TRUE iff defaultHandler.fnContextErrorf is set
    messageHandlers,    \* defaultHandler.messageHandlers: routing key -> handler
    regLog,             \* the handlers registered so far, in order of completion
    tasks,              \* the dispatch tasks, one per inbound payload
    crashed,            \* a panic has left a goroutine: the process is gone
    muMessageHandlers,  \* defaultHandler.muMessageHandlers: who holds the RWMutex
    triple,             \* input of the combiner
    packed,             \* Combine(triple), once computed
    parts,              \* Separate(packed), once computed
    errv,               \* an error value under construction by WithCode
    wraps,              \* the number of WithCode calls that built errv
    query,              \* the last IsCodeError call: its arguments and result
    reqCtx,             \* melody.Session.Request's context: the stored pairs
    callers             \* the WithValue calls on one session

vars == << detailsType, fnGetErrCode, fnContextErrorf, messageHandlers, regLog,
           tasks, crashed, muMessageHandlers, triple, packed, parts,
           errv, wraps, query, reqCtx, callers >>

dispatchVars == << detailsType, fnGetErrCode, fnContextErrorf, messageHandlers,
                   regLog, tasks, crashed, muMessageHandlers >>

combinerVars == << triple, packed, parts >>

errorVars == << errv, wraps, query >>

contextVars == << reqCtx, callers >>

NoResp == [header |-> NilHeader, code |-> -1, message |-> "", data |-> "nil",
           hasDetails |-> FALSE, details |-> ""]

NoBytes == "none"

IdleTask ==
    [pc |-> "idle", msg |-> NoMsg, header |-> NilHeader, mh |-> NoHandler,
     looked |-> FALSE, seen |-> 0, invoked |-> NoHandler, outcome |-> "none",
     respData |-> "nil",
     err |-> NilErr, respErr |-> NilErr, resp |-> NoResp, resps |-> 0,
     asked |-> FALSE, consulted |-> 0, classified |-> ClassifierUnused,
     marshals |-> 0, marshalFails |-> 0,
     bytes |-> NoBytes, writes |-> 0, writeErr |-> FALSE, logs |-> 0]

(* -------------------------- ws: response formatter --------------------- *)

\* a formatter that discloses the message at every verbosity
getDetailsAlways(e) ==
    CASE detailsType = HandlerDetailsWithError ->
            IF Tail(e) # NilErr
            THEN ErrorText(e) \o ":" \o ErrorText(Tail(e))
            ELSE ErrorText(e)
      [] detailsType = HandlerDetailsFull -> FormatPlusV(e)
      [] OTHER -> ErrorText(e)

getDetails(e) ==
    CASE detailsType = HandlerDetailsNone -> ""
      [] detailsType = HandlerDetailsNormal -> ErrorText(e)
      [] detailsType = HandlerDetailsWithError ->
            IF Tail(e) # NilErr
            THEN ErrorText(e) \o ":" \o ErrorText(Tail(e))
            ELSE ErrorText(e)
      [] detailsType = HandlerDetailsFull -> FormatPlusV(e)
      [] OTHER -> ""

\* getResp consults the classifier iff err is not nil, carries no code, and
\* fnGetErrCode is set
Consults(err) == err # NilErr /\ ~IsCodeErr(err) /\ fnGetErrCode

\* getResp, given what the classifier returns when it is consulted
getResp(header, respData, err, classified) ==
    LET resp == [header |-> header, code |-> 0, message |-> "Success",
                 data |-> respData, hasDetails |-> FALSE, details |-> ""]
    IN  IF err = NilErr THEN resp
        ELSE LET fromFn == IF fnGetErrCode THEN classified ELSE NoCode
                 coded == IF IsCodeErr(err) THEN err
                          ELSE WithCode(TakeCodePriority(<< fromFn, ErrInternalServer >>), err)
                 e == AsCodeError(coded)
                 details == getDetails(e)
             IN  [resp EXCEPT !.code = e[1].ec.code,
                              !.message = e[1].ec.message,
                              !.hasDetails = (details # ""),
                              !.details = details]

\* json.Marshal(resp) succeeds
Marshals(resp) == resp.data # "chan" /\ ~resp.header.poison

MarshalErr == PlainErr("json: unsupported type")

\* the classifier results getResp can meet for err
ClassifierChoices(err) ==
    IF Consults(err) THEN ClassifierOutcomes ELSE {ClassifierUnused}

(* ------------------------------ operations ----------------------------- *)

\* sync.RWMutex: nobody holds it
Unlocked == [readers |-> 0, writer |-> FALSE]

\* Lock returns only when there is neither a reader nor a writer
CanLock == muMessageHandlers.readers = 0 /\ ~muMessageHandlers.writer

\* RLock returns only when there is no writer
CanRLock == ~muMessageHandlers.writer

\* h.errorf
errorf(t) == IF fnContextErrorf THEN [t EXCEPT !.logs = @ + 1] ELSE t

\* a registration that keeps the entry the registry already holds
RegisterKeepsFirst(mh) ==
    /\ ~crashed
    /\ Len(regLog) < MaxRegs
    /\ CanLock
    /\ LET header == GetHeader(mh)
       IN  messageHandlers' =
               [k \in DOMAIN messageHandlers \cup {Key(header)} |->
                   IF k \in DOMAIN messageHandlers THEN messageHandlers[k] ELSE mh]
    /\ regLog' = Append(regLog, mh)
    /\ UNCHANGED << detailsType, fnGetErrCode, fnContextErrorf, tasks, crashed,
                    muMessageHandlers >>
    /\ UNCHANGED << triple, packed, parts, errv, wraps, query, reqCtx, callers >>

RegisterMessageHandler(mh) ==
    /\ ~crashed
    /\ Len(regLog) < MaxRegs
    /\ CanLock
    /\ LET header == GetHeader(mh)
       IN  messageHandlers' =
               [k \in DOMAIN messageHandlers \cup {Key(header)} |->
                   IF k = Key(header) THEN mh ELSE messageHandlers[k]]
    /\ regLog' = Append(regLog, mh)
    /\ UNCHANGED << detailsType, fnGetErrCode, fnContextErrorf, tasks, crashed,
                    muMessageHandlers >>
    /\ UNCHANGED << combinerVars, errorVars, contextVars >>

\* a dispatch that goes on to the registry whatever the decoding returned
ResolveIgnoresDecodeError(t, msg) ==
    /\ ~crashed
    /\ tasks[t].pc = "idle"
    /\ \A u \in DOMAIN tasks : u < t => tasks[u].pc # "idle"
    /\ msg.envOK => CanRLock
    /\ LET key == Key(msg.header)
       IN  tasks' = [tasks EXCEPT ![t] =
               IF key \in DOMAIN messageHandlers
               THEN [@ EXCEPT !.pc = "handle", !.msg = msg, !.header = msg.header,
                              !.looked = TRUE, !.seen = Len(regLog),
                              !.mh = messageHandlers[key]]
               ELSE [@ EXCEPT !.pc = "resp", !.msg = msg, !.header = msg.header,
                              !.looked = TRUE, !.seen = Len(regLog),
                              !.err = WithMessagef(ErrParam,
                                          "unknown header msg type " \o key)]]
    /\ UNCHANGED << detailsType, fnGetErrCode, fnContextErrorf, messageHandlers,
                    regLog, crashed, muMessageHandlers >>
    /\ UNCHANGED << triple, packed, parts, errv, wraps, query, reqCtx, callers >>

\* a lookup whose read lock is still held when the handler is invoked
ResolveHoldsLock(t, msg) ==
    /\ ~crashed
    /\ tasks[t].pc = "idle"
    /\ \A u \in DOMAIN tasks : u < t => tasks[u].pc # "idle"
    /\ msg.envOK => CanRLock
    /\ LET key == Key(msg.header)
       IN  /\ tasks' = [tasks EXCEPT ![t] =
                   IF ~msg.envOK
                   THEN [@ EXCEPT !.pc = "resp", !.msg = msg,
                                  !.err = WithMessagef(ErrParam, "unmarshal failed, invalid")]
                   ELSE IF key \in DOMAIN messageHandlers
                   THEN [@ EXCEPT !.pc = "handle", !.msg = msg, !.header = msg.header,
                                  !.looked = TRUE, !.seen = Len(regLog),
                                  !.mh = messageHandlers[key]]
                   ELSE [@ EXCEPT !.pc = "resp", !.msg = msg, !.header = msg.header,
                                  !.looked = TRUE, !.seen = Len(regLog),
                                  !.err = WithMessagef(ErrParam,
                                              "unknown header msg type " \o key)]]
           /\ muMessageHandlers' =
                   IF msg.envOK /\ key \in DOMAIN messageHandlers
                   THEN [muMessageHandlers EXCEPT !.readers = 1]
                   ELSE muMessageHandlers
    /\ UNCHANGED << detailsType, fnGetErrCode, fnContextErrorf, messageHandlers,
                    regLog, crashed >>
    /\ UNCHANGED << triple, packed, parts, errv, wraps, query, reqCtx, callers >>

\* handleMessage, lines 204-226: the goroutine starts, decodes the envelope
\* and looks the handler up under the read lock.  Payloads are numbered in
\* the order in which their goroutines start.
Resolve(t, msg) ==
    /\ ~crashed
    /\ tasks[t].pc = "idle"
    /\ \A u \in DOMAIN tasks : u < t => tasks[u].pc # "idle"
    /\ msg.envOK => CanRLock
    /\ LET key == Key(msg.header)
       IN  tasks' = [tasks EXCEPT ![t] =
               IF ~msg.envOK
               THEN [@ EXCEPT !.pc = "resp", !.msg = msg,
                              !.err = WithMessagef(ErrParam, "unmarshal failed, invalid")]
               ELSE IF key \in DOMAIN messageHandlers
               THEN [@ EXCEPT !.pc = "handle", !.msg = msg, !.header = msg.header,
                              !.looked = TRUE, !.seen = Len(regLog),
                              !.mh = messageHandlers[key]]
               ELSE [@ EXCEPT !.pc = "resp", !.msg = msg, !.header = msg.header,
                              !.looked = TRUE, !.seen = Len(regLog),
                              !.err = WithMessagef(ErrParam,
                                          "unknown header msg type " \o key)]]
    /\ UNCHANGED << detailsType, fnGetErrCode, fnContextErrorf, messageHandlers,
                    regLog, crashed, muMessageHandlers >>
    /\ UNCHANGED << combinerVars, errorVars, contextVars >>

\* handleMessage, line 228 with the recover of lines 212-216, and
\* MessageHandler.Handle
Handle(t, out) ==
    /\ ~crashed
    /\ tasks[t].pc = "handle"
    /\ tasks' = [tasks EXCEPT ![t] =
           IF ~DataDecodes(tasks[t].mh, tasks[t].msg)
           THEN [@ EXCEPT !.pc = "resp",
                          !.err = PlainErr("json: cannot unmarshal")]
           ELSE [@ EXCEPT !.pc = "resp",
                          !.invoked = tasks[t].mh,
                          !.outcome = out.kind,
                          !.header.poison = out.poison,
                          !.respData = out.data,
                          !.err = IF out.kind = "panic"
                                  THEN PkgNew("panic: boom")
                                  ELSE out.err]]
    /\ UNCHANGED << detailsType, fnGetErrCode, fnContextErrorf, messageHandlers,
                    regLog, crashed, muMessageHandlers >>
    /\ UNCHANGED << combinerVars, errorVars, contextVars >>

\* the task after h.getResp(header, respData, err) has returned
Built(task, respData, err, classified) ==
    [task EXCEPT !.asked = Consults(err),
                 !.consulted = @ + (IF Consults(err) THEN 1 ELSE 0),
                 !.classified = classified,
                 !.respErr = err,
                 !.resps = @ + 1,
                 !.resp = getResp(task.header, respData, err, classified.ec)]

\* the task after a panic has left h.getResp
Panicked(task, err, classified) ==
    [task EXCEPT !.pc = "panicked",
                 !.asked = Consults(err),
                 !.consulted = @ + (IF Consults(err) THEN 1 ELSE 0),
                 !.classified = classified]

\* a write that reports to the sink whatever s.Write returned
WriteAlwaysLogs(task, bytes, ok) ==
    errorf([task EXCEPT !.pc = "done", !.bytes = bytes, !.writes = @ + 1,
                        !.writeErr = ~ok])

\* handleMessage, lines 244-246: s.Write succeeds (ok) or returns an error
Write(task, bytes, ok) ==
    LET written == [task EXCEPT !.pc = "done", !.bytes = bytes, !.writes = @ + 1,
                                !.writeErr = ~ok]
    IN  IF ok THEN written ELSE errorf(written)

\* a dispatch that hands the rebuilt envelope over although it did not serialise
MarshalAndWriteAnyway(task, second, ok) ==
    LET failed == [task EXCEPT !.marshals = @ + 1, !.marshalFails = @ + 1]
    IN  IF Marshals(task.resp)
        THEN Write([task EXCEPT !.marshals = @ + 1], "resp", ok)
        ELSE IF second.panic
        THEN Panicked(failed, MarshalErr, second)
        ELSE LET rebuilt == Built(failed, "nil", MarshalErr, second)
             IN  IF Marshals(rebuilt.resp)
                 THEN Write([rebuilt EXCEPT !.marshals = @ + 1], "resp", ok)
                 ELSE Write(errorf([rebuilt EXCEPT !.marshals = @ + 1,
                                                   !.marshalFails = @ + 1]),
                            "resp", ok)

\* handleMessage, lines 235-246
MarshalAndWrite(task, second, ok) ==
    LET failed == [task EXCEPT !.marshals = @ + 1, !.marshalFails = @ + 1]
    IN  IF Marshals(task.resp)
        THEN Write([task EXCEPT !.marshals = @ + 1], "resp", ok)
        ELSE IF second.panic
        THEN Panicked(failed, MarshalErr, second)
        ELSE LET rebuilt == Built(failed, "nil", MarshalErr, second)
             IN  IF Marshals(rebuilt.resp)
                 THEN Write([rebuilt EXCEPT !.marshals = @ + 1], "resp", ok)
                 ELSE Write(errorf([rebuilt EXCEPT !.marshals = @ + 1,
                                                   !.marshalFails = @ + 1]),
                            "nil", ok)

\* handleMessage, lines 233-246: first and second are what the classifier
\* does in the first and in the second call of getResp
Respond(t, first, second, ok) ==
    /\ ~crashed
    /\ tasks[t].pc = "resp"
    /\ first \in ClassifierChoices(tasks[t].err)
    /\ LET built == Built(tasks[t], tasks[t].respData, tasks[t].err, first)
           after == IF first.panic
                    THEN Panicked(tasks[t], tasks[t].err, first)
                    ELSE MarshalAndWrite(built, second, ok)
       IN  /\ second \in (IF first.panic \/ Marshals(built.resp)
                          THEN {ClassifierUnused}
                          ELSE ClassifierChoices(MarshalErr))
           /\ tasks' = [tasks EXCEPT ![t] = after]
           /\ crashed' = (after.pc = "panicked")
    /\ UNCHANGED << detailsType, fnGetErrCode, fnContextErrorf, messageHandlers,
                    regLog, muMessageHandlers >>
    /\ UNCHANGED << combinerVars, errorVars, contextVars >>

(* ---------------------------- the combiner ----------------------------- *)

CategoryInputs ==
    (-MaxDelta..MaxDelta) \cup {CCBadRequest, CCNotFound, CCInternalServer}
        \cup ((999 - MaxDelta)..(999 + MaxDelta))

PlatformInputs == (-MaxDelta..MaxDelta) \cup {10} \cup ((99 - MaxDelta)..(99 + MaxDelta))

SpecificInputs == (-MaxDelta..MaxDelta) \cup ((999 - MaxDelta)..(999 + MaxDelta))

\* codes met on the wire
CodeInputs == {0, 4041001, 40410001} \cup (1..MaxDelta)

NotComputed == << >>

DoCombine ==
    /\ triple # NotComputed
    /\ packed = NotComputed
    /\ packed' = << Combine(triple[1], triple[2], triple[3]) >>
    /\ UNCHANGED << triple, parts >>
    /\ UNCHANGED << dispatchVars, errorVars, contextVars >>

DoSeparate ==
    /\ packed # NotComputed
    /\ parts = NotComputed
    /\ parts' = Separate(packed[1])
    /\ UNCHANGED << triple, packed >>
    /\ UNCHANGED << dispatchVars, errorVars, contextVars >>

(* ------------------------- errorx: wrap and query ---------------------- *)

\* the causes a first WithCode call is given: nil, an error without a stack
\* trace, an error with one
StartCauses == {NilErr, PlainErr("boom"), PkgNew("boom")}

ErrCodeHandles == {ErrUserNotFound, ErrUserTwin, ErrParamCode}

\* "" stands for a call without formatWithArgs
Formats == {"", "while handling"}

\* the code arguments of an IsCodeError call
CodeArgs ==
    { << >>, << ErrUserNotFound, ErrUserTwin >> } \cup { << c >> : c \in ErrCodeHandles }

DoWithCode(c, format) ==
    /\ wraps < MaxWraps
    /\ errv' = WithCodeFormat(c, errv, format)
    /\ wraps' = wraps + 1
    /\ query' = query
    /\ UNCHANGED << dispatchVars, combinerVars, contextVars >>

DoIsCodeError(codes) ==
    /\ query' = [err |-> errv, codes |-> codes,
                 result |-> IsCodeError(errv, codes), made |-> TRUE]
    /\ UNCHANGED << errv, wraps >>
    /\ UNCHANGED << dispatchVars, combinerVars, contextVars >>

(* ------------------------ the connection context ---------------------- *)

\* a context is the list of its key/value layers, the newest first; the
\* session's request starts with a context without values
EmptyContext == << >>

ContextKeys == {"user", "trace"}

ContextVals == {"a", "b"}

NoValue == "nil"

\* context.WithValue
ContextWithValue(ctx, key, val) == << [key |-> key, val |-> val] >> \o ctx

\* websocketContext.Value: the newest layer of the key
Value(ctx, key) ==
    IF \E i \in 1..Len(ctx) : ctx[i].key = key
    THEN ctx[CHOOSE i \in 1..Len(ctx) :
                 /\ ctx[i].key = key
                 /\ \A j \in 1..(i - 1) : ctx[j].key # key].val
    ELSE NoValue

IdleCaller == [pc |-> "idle", key |-> NoValue, val |-> NoValue, ctx |-> EmptyContext]

\* websocketContext.WithValue, line 46: c.Context() is read and the new
\* context is built from it
WithValue(c, key, val) ==
    /\ callers[c].pc = "idle"
    /\ callers' = [callers EXCEPT ![c] =
           [pc |-> "built", key |-> key, val |-> val,
            ctx |-> ContextWithValue(reqCtx, key, val)]]
    /\ UNCHANGED reqCtx
    /\ UNCHANGED << dispatchVars, combinerVars, errorVars >>

\* websocketContext.WithContext, line 38: the request that carries the new
\* context is stored in the session
WithContext(c) ==
    /\ callers[c].pc = "built"
    /\ reqCtx' = callers[c].ctx
    /\ callers' = [callers EXCEPT ![c].pc = "returned"]
    /\ UNCHANGED << dispatchVars, combinerVars, errorVars >>

(* --------------------------- specifications ---------------------------- *)

NoQuery == [err |-> NilErr, codes |-> << >>, result |-> FALSE, made |-> FALSE]

\* nothing is built or queried in package errorx
IdleErrors ==
    /\ errv = NilErr
    /\ wraps = 0
    /\ query = NoQuery

\* no call of WithValue is made
IdleContext ==
    /\ reqCtx = << >>
    /\ callers = << >>

InitDispatch ==
    /\ detailsType \in {HandlerDetailsNone, HandlerDetailsNormal,
                        HandlerDetailsWithError, HandlerDetailsFull}
    /\ fnGetErrCode \in BOOLEAN
    /\ fnContextErrorf \in BOOLEAN
    /\ messageHandlers = << >>
    /\ regLog = << >>
    /\ tasks = [t \in Tasks |-> IdleTask]
    /\ crashed = FALSE
    /\ muMessageHandlers = Unlocked

Init ==
    /\ InitDispatch
    /\ triple = NotComputed
    /\ packed = NotComputed
    /\ parts = NotComputed
    /\ IdleErrors
    /\ IdleContext

Next ==
    \/ \E mh \in Handlers : RegisterMessageHandler(mh)
    \/ \E t \in DOMAIN tasks, msg \in Msgs : Resolve(t, msg)
    \/ \E t \in DOMAIN tasks, out \in HandleOutcomes : Handle(t, out)
    \/ \E t \in DOMAIN tasks, first \in ClassifierOutcomes, second \in ClassifierOutcomes,
          ok \in BOOLEAN : Respond(t, first, second, ok)

Spec == Init /\ [][Next]_vars

InitCombiner ==
    /\ detailsType = HandlerDetailsNone
    /\ fnGetErrCode = FALSE
    /\ fnContextErrorf = FALSE
    /\ messageHandlers = << >>
    /\ regLog = << >>
    /\ tasks = [t \in Tasks |-> IdleTask]
    /\ crashed = FALSE
    /\ muMessageHandlers = Unlocked
    /\ IdleErrors
    /\ IdleContext
    /\ \/ /\ triple \in CategoryInputs \X PlatformInputs \X SpecificInputs
          /\ packed = NotComputed
       \/ /\ triple = NotComputed
          /\ packed \in { << c >> : c \in CodeInputs }
    /\ parts = NotComputed

NextCombiner ==
    \/ DoCombine
    \/ DoSeparate

SpecCombiner == InitCombiner /\ [][NextCombiner]_vars

\* a server that receives nothing
IdleDispatch ==
    /\ detailsType = HandlerDetailsNone
    /\ fnGetErrCode = FALSE
    /\ fnContextErrorf = FALSE
    /\ messageHandlers = << >>
    /\ regLog = << >>
    /\ tasks = [t \in Tasks |-> IdleTask]
    /\ crashed = FALSE
    /\ muMessageHandlers = Unlocked

IdleCombiner ==
    /\ triple = NotComputed
    /\ packed = NotComputed
    /\ parts = NotComputed

InitErrors ==
    /\ IdleDispatch
    /\ IdleCombiner
    /\ IdleContext
    /\ errv \in StartCauses
    /\ wraps = 0
    /\ query = NoQuery

NextErrors ==
    \/ \E c \in ErrCodeHandles, format \in Formats : DoWithCode(c, format)
    \/ \E codes \in CodeArgs : DoIsCodeError(codes)

SpecErrors == InitErrors /\ [][NextErrors]_vars

InitContext ==
    /\ IdleDispatch
    /\ IdleCombiner
    /\ IdleErrors
    /\ reqCtx = EmptyContext
    /\ callers = [c \in 1..NumCallers |-> IdleCaller]

NextContext ==
    \/ \E c \in DOMAIN callers, key \in ContextKeys, val \in ContextVals :
           WithValue(c, key, val)
    \/ \E c \in DOMAIN callers : WithContext(c)

SpecContext == InitContext /\ [][NextContext]_vars

\* NumConcurrent payloads arrive at a server without a classifier
InitConc ==
    /\ detailsType = HandlerDetailsNone
    /\ fnGetErrCode = FALSE
    /\ fnContextErrorf = TRUE
    /\ messageHandlers = << >>
    /\ regLog = << >>
    /\ tasks = [t \in 1..NumConcurrent |-> IdleTask]
    /\ crashed = FALSE
    /\ muMessageHandlers = Unlocked
    /\ IdleCombiner
    /\ IdleErrors
    /\ IdleContext

SpecConc == InitConc /\ [][Next]_vars

(* ------------------------------ properties ----------------------------- *)

\* the dispatch task has ended: handleMessage returned, or a panic left it
Ended(t) == tasks[t].pc \in {"done", "panicked"}

\* the task built at least one response envelope
HasResp(t) == tasks[t].resps >= 1

\* C1: every dispatch task that has ended, whatever the payload, the lookup
\* and the handler did, has called the session's write operation exactly
\* once, and no task ever calls it twice.
C1_ExactlyOneWrite ==
    \A t \in DOMAIN tasks :
        /\ tasks[t].writes <= 1
        /\ Ended(t) => tasks[t].writes = 1

\* C2: when the resolved handler panicked, the panic does not leave
\* handleMessage, and the task ends with one envelope handed to the session
\* whose code is not zero.
C2_HandlerPanicContained ==
    \A t \in DOMAIN tasks :
        tasks[t].outcome = "panic" =>
            /\ ~crashed
            /\ tasks[t].pc # "panicked"
            /\ tasks[t].pc = "done" =>
                   /\ tasks[t].writes = 1
                   /\ tasks[t].bytes = "resp"
                   /\ tasks[t].resp.code # 0

\* C3: a dispatch whose routing key has no registered handler invokes no
\* handler and ends with an envelope whose code is not zero and whose
\* message field contains the routing key.
C3_UnknownRouteMessageHasKey ==
    \A t \in DOMAIN tasks :
        (tasks[t].looked /\ tasks[t].mh = NoHandler) =>
            /\ tasks[t].invoked = NoHandler
            /\ tasks[t].pc = "done" =>
                   /\ tasks[t].resp.code # 0
                   /\ Contains(tasks[t].resp.message, Key(tasks[t].msg.header))

\* C4: a dispatch that resolved a handler but whose data does not decode into
\* the handler's request type does not invoke HandleFunc and ends with an
\* envelope whose code is of the bad-request category.
C4_UndecodableDataIsBadRequest ==
    \A t \in DOMAIN tasks :
        (tasks[t].mh # NoHandler /\ ~DataDecodes(tasks[t].mh, tasks[t].msg)) =>
            /\ tasks[t].invoked = NoHandler
            /\ tasks[t].pc = "done" => Separate(tasks[t].resp.code)[1] = CCBadRequest

\* the registrations among the first n that were made under key
RegsFor(key, n) == { i \in 1..n : Key(GetHeader(regLog[i])) = key }

\* the handler of the latest of them
LatestFor(key, n) ==
    regLog[CHOOSE i \in RegsFor(key, n) : \A j \in RegsFor(key, n) : j <= i]

\* C5: the registry holds exactly the keys registered so far, each with the
\* handler of the latest registration under that key, and a dispatch invokes
\* the handler of the latest registration completed before its lookup.
C5_LatestRegistrationWins ==
    /\ DOMAIN messageHandlers =
           { Key(GetHeader(regLog[i])) : i \in 1..Len(regLog) }
    /\ \A k \in DOMAIN messageHandlers : messageHandlers[k] = LatestFor(k, Len(regLog))
    /\ \A t \in DOMAIN tasks :
           tasks[t].mh # NoHandler =>
               /\ RegsFor(Key(tasks[t].msg.header), tasks[t].seen) # {}
               /\ tasks[t].mh = LatestFor(Key(tasks[t].msg.header), tasks[t].seen)
               /\ tasks[t].invoked \in {NoHandler, tasks[t].mh}

\* two registrations under one key, and a dispatch that ran the second handler
C5_Witness ==
    /\ regLog = << hEchoA, hEchoB >>
    /\ \E t \in DOMAIN tasks :
           /\ tasks[t].seen = 2
           /\ tasks[t].invoked = hEchoB
           /\ tasks[t].pc = "done"

\* the ErrCode of the outermost codeError of err's chain
FirstCode(err) ==
    err[CHOOSE i \in 1..Len(err) :
            /\ err[i].k = "codeError"
            /\ \A j \in 1..Len(err) : err[j].k = "codeError" => i <= j].ec

\* C6: the code of an error envelope is the code of the codeError the error
\* carries, and then the classifier is not consulted; otherwise it is what the
\* classifier returned when one is set and it returned a code; otherwise it
\* is the internal-server code, category 500, platform 0, specific 0.
C6_CodeResolution ==
    \A t \in DOMAIN tasks :
        (HasResp(t) /\ tasks[t].respErr # NilErr) =>
            LET err == tasks[t].respErr
                resp == tasks[t].resp
                hasCode == \E i \in 1..Len(err) : err[i].k = "codeError"
            IN  IF hasCode
                THEN /\ ~tasks[t].asked
                     /\ resp.code = FirstCode(err).code
                     /\ resp.message = FirstCode(err).message
                ELSE IF fnGetErrCode /\ tasks[t].classified.ec # NoCode
                THEN /\ tasks[t].asked
                     /\ resp.code = tasks[t].classified.ec.code
                     /\ resp.message = tasks[t].classified.ec.message
                ELSE /\ resp.code = 50000000
                     /\ Separate(resp.code) = << 500, 0, 0 >>

\* an error without a code that the classifier mapped to a code of its own
C6_Witness ==
    \E t \in DOMAIN tasks :
        /\ tasks[t].pc = "done"
        /\ tasks[t].respErr = PlainErr("boom")
        /\ tasks[t].asked
        /\ tasks[t].classified.ec = ErrUserNotFound
        /\ tasks[t].resp.code = 40410001

\* C7: an envelope built for an error never carries code 0.
C7_ErrorCodeNonZero ==
    \A t \in DOMAIN tasks :
        (HasResp(t) /\ tasks[t].respErr # NilErr) => tasks[t].resp.code # 0

\* C8: an envelope has details exactly when it was built for an error and
\* the verbosity is not none, and details that are present are not empty.
C8_DetailsIffErrorAndVerbose ==
    \A t \in DOMAIN tasks :
        HasResp(t) =>
            /\ tasks[t].resp.hasDetails <=>
                   (tasks[t].respErr # NilErr /\ detailsType # HandlerDetailsNone)
            /\ tasks[t].resp.hasDetails => tasks[t].resp.details # ""
            /\ ~tasks[t].resp.hasDetails => tasks[t].resp.details = ""

\* an error under verbosity none, sent without details
C8_Witness ==
    \E t \in DOMAIN tasks :
        /\ tasks[t].pc = "done"
        /\ detailsType = HandlerDetailsNone
        /\ tasks[t].respErr # NilErr
        /\ tasks[t].bytes = "resp"
        /\ ~tasks[t].resp.hasDetails

\* C9: separating the combination of a category in 0..999, a platform in
\* 0..99 and a specific code in 0..999 gives the three back.
C9_RoundTrip ==
    (/\ triple # NotComputed
     /\ parts # NotComputed
     /\ triple[1] \in 0..999
     /\ triple[2] \in 0..99
     /\ triple[3] \in 0..999) => parts = triple

\* the largest triple of the range, combined and separated
C9_Witness ==
    /\ triple = << 999, 99, 999 >>
    /\ packed = << 99999999 >>
    /\ parts = << 999, 99, 999 >>

\* C10: a payload that is not an envelope never reaches the registry or a
\* handler, no panic leaves its task, and the task ends with one envelope
\* of the bad-parameter code handed to the session.
C10_BadEnvelopeIsBadParam ==
    \A t \in DOMAIN tasks :
        (tasks[t].pc # "idle" /\ ~tasks[t].msg.envOK) =>
            /\ ~tasks[t].looked
            /\ tasks[t].mh = NoHandler
            /\ tasks[t].invoked = NoHandler
            /\ tasks[t].pc \in {"resp", "done"}
            /\ tasks[t].pc = "done" =>
                   /\ tasks[t].writes = 1
                   /\ tasks[t].bytes = "resp"
                   /\ tasks[t].resp.code = 40000000
                   /\ Separate(tasks[t].resp.code)[1] = CCBadRequest

\* an undecodable payload answered while a handler is registered under the
\* key of the empty header
C10_Witness ==
    /\ "" \in DOMAIN messageHandlers
    /\ \E t \in DOMAIN tasks :
           /\ tasks[t].pc = "done"
           /\ tasks[t].msg = BadEnvelope
           /\ tasks[t].seen = 0
           /\ tasks[t].resp.code = 40000000

\* a declared header without a string-valued version and action
Malformed(h) == h.version.t # "str" /\ h.action.t # "str"

\* C11: no inbound message, whatever its header, is dispatched to a handler
\* that was registered with a malformed declared header.
C11_MalformedHandlerUnreachable ==
    \A t \in DOMAIN tasks :
        tasks[t].mh # NoHandler => ~Malformed(GetHeader(tasks[t].mh))

\* C12: the logging sink is called in a dispatch only if the rebuilt response
\* failed to serialise or the session write returned an error; a dispatch
\* whose first serialisation and whose write both succeeded never calls it.
C12_SinkOnlyOnFailure ==
    \A t \in DOMAIN tasks :
        /\ tasks[t].logs > 0 =>
               /\ fnContextErrorf
               /\ tasks[t].marshalFails = 2 \/ tasks[t].writeErr
        /\ (tasks[t].pc = "done" /\ tasks[t].marshalFails = 0 /\ ~tasks[t].writeErr) =>
               tasks[t].logs = 0

\* a handler panicked, the envelope serialised and was written: the sink,
\* although set, was not called
C12_Witness ==
    \E t \in DOMAIN tasks :
        /\ fnContextErrorf
        /\ tasks[t].pc = "done"
        /\ tasks[t].outcome = "panic"
        /\ tasks[t].marshalFails = 0
        /\ ~tasks[t].writeErr
        /\ tasks[t].logs = 0

\* C14: no panic raised inside a dispatch task, the classifier's included,
\* leaves handleMessage.
C14_EveryPanicContained ==
    /\ ~crashed
    /\ \A t \in DOMAIN tasks : tasks[t].pc # "panicked"

\* C18: after a failed first serialisation the envelope is rebuilt around the
\* serialisation error and serialised once more; when that fails too the sink
\* is called, there is no third serialisation, and the bytes handed to the
\* session are not an envelope.
C18_SecondFailureOnlyLogged ==
    \A t \in DOMAIN tasks :
        /\ tasks[t].marshals <= 2
        /\ (tasks[t].pc = "done" /\ tasks[t].marshalFails >= 1) =>
               /\ tasks[t].marshals = 2
               /\ tasks[t].resps = 2
               /\ tasks[t].respErr = MarshalErr
        /\ (tasks[t].pc = "done" /\ tasks[t].marshalFails = 2) =>
               /\ tasks[t].bytes = "nil"
               /\ fnContextErrorf => tasks[t].logs >= 1

\* both serialisations failed, the sink was called, and nil was written
C18_Witness ==
    \E t \in DOMAIN tasks :
        /\ fnContextErrorf
        /\ tasks[t].pc = "done"
        /\ tasks[t].marshalFails = 2
        /\ tasks[t].logs >= 1
        /\ tasks[t].bytes = "nil"
        /\ tasks[t].writes = 1

\* the (version, action) pair a header declares
Pair(h) == << Version(h), Action(h) >>

\* C20: a handler stays in the registry until one is registered under the
\* same (version, action) pair, and a message is dispatched to a handler
\* registered under exactly the pair the message carries.
C20_DistinctPairsDistinctKeys ==
    /\ \A i \in 1..Len(regLog) :
           (\A j \in (i + 1)..Len(regLog) :
                Pair(GetHeader(regLog[j])) # Pair(GetHeader(regLog[i]))) =>
               messageHandlers[Key(GetHeader(regLog[i]))] = regLog[i]
    /\ \A t \in DOMAIN tasks :
           tasks[t].mh # NoHandler =>
               Pair(GetHeader(tasks[t].mh)) = Pair(tasks[t].msg.header)

\* C16: the code 4041001 separates into category 404, platform 10 and
\* specific code 1.
C16_DocExampleSeparates ==
    (packed = << 4041001 >> /\ parts # NotComputed) => parts = << 404, 10, 1 >>

\* C15: IsCodeError with one code is true exactly when the chain holds a
\* code error whose ErrCode is the very handle given, so an error made with
\* one of two handles of equal packed integer is not reported as the other;
\* without a code it is true exactly when the chain holds a code error.
C15_IsCodeErrorByIdentity ==
    query.made =>
        LET err == query.err
            has == \E i \in 1..Len(err) : err[i].k = "codeError"
        IN  /\ Len(query.codes) = 0 => (query.result <=> has)
            /\ Len(query.codes) = 1 =>
                   (query.result <=> (has /\ FirstCode(err).id = query.codes[1].id))
            /\ (has /\ FirstCode(err).id = "notfound" /\ query.codes = << ErrUserTwin >>) =>
                   ~query.result

\* an error made with ErrUserNotFound, asked for its twin of equal integer
C15_Witness ==
    /\ query.made
    /\ IsCodeErr(query.err)
    /\ FirstCode(query.err) = ErrUserNotFound
    /\ query.codes = << ErrUserTwin >>
    /\ ErrUserTwin.code = ErrUserNotFound.code
    /\ ~query.result

\* the stack traces of an error's chain
StackCount(err) ==
    Cardinality({ i \in 1..Len(err) : err[i].k \in {"fundamental", "withStack"} })

\* C17: an error built by WithCode wraps from a nil cause, a cause without a
\* stack trace or a cause with one stack trace carries exactly one stack trace.
C17_ExactlyOneStack ==
    wraps >= 1 => StackCount(errv) = 1

\* two wraps, one with a message layer, over a cause without a stack trace
C17_Witness ==
    /\ wraps = 2
    /\ errv[Len(errv)].k = "plain"
    /\ \E i \in 1..Len(errv) : errv[i].k = "withMessage"
    /\ Cardinality({ i \in 1..Len(errv) : errv[i].k = "codeError" }) = 2
    /\ StackCount(errv) = 1

\* C13: while a handler invocation is blocked, no registry lock is held, every
\* other dispatch task can take its next step (look the registry up, run its
\* handler, write its response) and RegisterMessageHandler can complete.
C13_BlockedHandlerIsolated ==
    \A t \in DOMAIN tasks :
        (~crashed /\ tasks[t].pc = "handle") =>
            /\ muMessageHandlers = Unlocked
            /\ \A u \in DOMAIN tasks \ {t} :
                   /\ (tasks[u].pc = "idle" /\ \A w \in DOMAIN tasks :
                                                   w < u => tasks[w].pc # "idle") =>
                          \A msg \in Msgs : ENABLED Resolve(u, msg)
                   /\ tasks[u].pc = "handle" =>
                          \A out \in HandleOutcomes : ENABLED Handle(u, out)
                   /\ tasks[u].pc = "resp" =>
                          \E first \in ClassifierOutcomes, second \in ClassifierOutcomes :
                              /\ ~first.panic
                              /\ ~second.panic
                              /\ ENABLED Respond(u, first, second, TRUE)
            /\ Len(regLog) < MaxRegs =>
                   \A mh \in Handlers : ENABLED RegisterMessageHandler(mh)

\* the first payload's handler has not returned; meanwhile a handler was
\* registered and the second payload was dispatched to a handler and answered
C13_Witness ==
    /\ ~crashed
    /\ tasks[1].pc = "handle"
    /\ tasks[2].pc = "done"
    /\ tasks[2].invoked # NoHandler
    /\ tasks[2].writes = 1
    /\ tasks[2].seen > tasks[1].seen

\* C19: after two tasks have each returned from WithValue with distinct keys
\* on the same session, Value returns the stored value for each of the keys.
C19_NoValueLost ==
    \A c \in DOMAIN callers, d \in DOMAIN callers :
        (/\ c # d
         /\ \A e \in DOMAIN callers : callers[e].pc = "returned" <=> e \in {c, d}
         /\ \A e \in DOMAIN callers : callers[e].pc \in {"idle", "returned"}
         /\ callers[c].key # callers[d].key) =>
            /\ Value(reqCtx, callers[c].key) = callers[c].val
            /\ Value(reqCtx, callers[d].key) = callers[d].val

====
